---- MODULE Spec2Model ----
(***************************************************************************)
(* Model of supertokens_python/recipe/session/session_class.py: the        *)
(* Session object (access token, access-token metadata, cached payload),   *)
(* its claim operations and assert_claims, run against the recipe          *)
(* implementation (the Store Gateway), whose replies are nondeterministic. *)
(*                                                                         *)
(* A payload is a Python dict: a sequence of <<key, value>> entries with   *)
(* distinct keys, in insertion order.  One request owns the session, so    *)
(* one operation runs at a time; assert_claims is split at its awaits.     *)
(***************************************************************************)
EXTENDS Integers, Sequences, FiniteSets, TLC

\* ---------------------------------------------------------------- bounds
MaxValidators == 2
MaxOps == 1
MaxRequests == 1
MaxCalls == 4

\* ------------------------------------------------------- value universes
None == "None"
Keys == {"role", "x"}
Values == {"admin", "user"}
Reasons == {"not admin"}
Failures == {"error", "cancelled"}

\* ------------------------------------------------------------ Python dict
DictKeys(d) == {d[i][1] : i \in 1..Len(d)}

DictHas(d, k) == k \in DictKeys(d)

DictGet(d, k) == IF DictHas(d, k)
                 THEN LET i == CHOOSE j \in 1..Len(d) : d[j][1] = k IN d[i][2]
                 ELSE None

\* d[k] = v : an existing key keeps its position, a new key goes last
DictSet(d, k, v) ==
    IF DictHas(d, k)
    THEN [i \in 1..Len(d) |-> IF d[i][1] = k THEN <<k, v>> ELSE d[i]]
    ELSE Append(d, <<k, v>>)

\* del d[k]
DictDel(d, k) == SelectSeq(d, LAMBDA e : e[1] # k)

\* {**a, **b}
RECURSIVE DictUnpack(_, _)
DictUnpack(a, b) ==
    IF b = <<>> THEN a
    ELSE DictUnpack(DictSet(a, Head(b)[1], Head(b)[2]), Tail(b))

\* json.dumps of a dict: the entries in insertion order, flattened
RECURSIVE JsonDumps(_)
JsonDumps(d) ==
    IF d = <<>> THEN <<"{", "}">>
    ELSE <<"{">> \o <<Head(d)[1], ":", Head(d)[2]>> \o Tail(JsonDumps(Tail(d)))

\* every dict over the given keys and values, in every key order
RECURSIVE DictsOver(_, _)
DictsOver(ks, vs) ==
    IF ks = {} THEN {<<>>}
    ELSE LET smaller == UNION {DictsOver(ks \ {k}, vs) : k \in ks}
         IN  smaller \cup
             UNION {{Append(d, <<k, v>>) : v \in vs, d \in DictsOver(ks \ {k}, vs)} : k \in ks}

Payloads == DictsOver(Keys, Values \cup {None})

\* the for-loop of merge_into_access_token_payload over the update's keys
RECURSIVE DelNoneKeys(_, _)
DelNoneKeysSkipped(p, update) == p
DelNoneKeys(p, update) ==
    IF update = <<>> THEN p
    ELSE DelNoneKeys(IF Head(update)[2] = None THEN DictDel(p, Head(update)[1]) ELSE p,
                     Tail(update))

\* update_payload of merge_into_access_token_payload
UpdatePayloadUpdateOnly(base, update) == DelNoneKeys(update, update)
UpdatePayload(base, update) == DelNoneKeys(DictUnpack(base, update), update)

\* ------------------------------------------------------ claims, validators
NoClaim == [key |-> "", mode |-> "none"]
Claims == {[key |-> "role", mode |-> "inplace"],
           [key |-> "x", mode |-> "rebuild"]}

\* the validators a caller can pass; "A" carries no claim, the claims of the
\* others write into the dict they are given ("inplace") or return a new one
ValidatorPool == {[id |-> "A", claim |-> NoClaim],
                  [id |-> "B", claim |-> [key |-> "role", mode |-> "inplace"]],
                  [id |-> "C", claim |-> [key |-> "x", mode |-> "rebuild"]]}

RECURSIVE ValidatorLists(_)
ValidatorLists(n) ==
    IF n = 0 THEN {<<>>}
    ELSE LET shorter == ValidatorLists(n - 1)
         IN  shorter \cup
             {Append(l, v) : l \in {s \in shorter : Len(s) = n - 1},
                             v \in ValidatorPool}

DistinctIds(l) == \A i, j \in 1..Len(l) : l[i].id = l[j].id => i = j

\* claim.add_to_payload_(payload, value): the payload with the claim's key set;
\* a "rebuild" claim returns a new dict that it fills with the other entries
\* first and its own key last
add_to_payload_(claim, payload, value) ==
    IF claim.mode = "rebuild"
    THEN Append(DictDel(payload, claim.key), <<claim.key, value>>)
    ELSE DictSet(payload, claim.key, value)

\* claim.remove_from_payload_by_merge_({}): a tombstone for the claim's key
remove_from_payload_by_merge_(claim, payload) == DictSet(payload, claim.key, None)

\* claim.get_value_from_payload(payload)
get_value_from_payload(claim, payload) == DictGet(payload, claim.key)

\* ------------------------------------------------------------ the Gateway
TokenLifetime == 100
NoToken == [present |-> FALSE, token |-> 0, expiry |-> 0, created_time |-> 0]
NoInfo == [set |-> FALSE, token |-> 0, expiry |-> 0, createdTime |-> 0]
KeyOrder == <<"role", "x">>

\* a transformation of the store: null entries dropped, keys in store order
StoreNormalise(p) ==
    LET kept == SelectSeq(KeyOrder, LAMBDA k : DictHas(p, k) /\ DictGet(p, k) # None)
    IN  [i \in 1..Len(kept) |-> <<kept[i], DictGet(p, kept[i])>>]

\* the possible outcomes of recipe_implementation.regenerate_access_token
regenerate_access_token(token, new_payload) ==
    {[kind |-> k, user_data_in_jwt |-> <<>>, access_token |-> NoToken] :
        k \in {"gone"} \cup Failures}
    \cup
    {[kind |-> "ok", user_data_in_jwt |-> p, access_token |-> t] :
        p \in {new_payload, StoreNormalise(new_payload)},
        t \in {NoToken, [present |-> TRUE, token |-> token + 1,
                         expiry |-> token + 1 + TokenLifetime,
                         created_time |-> token + 1]}}

\* ------------------------------------------------------------------ state
VARIABLES
    access_token,              \* Session.access_token
    new_access_token_info,     \* Session.new_access_token_info
    access_token_payload,      \* Session.access_token_payload
    remove_cookies,            \* Session.remove_cookies
    pc,                        \* where the running operation stands
    op,                        \* the operation running, or last run
    result,                    \* how the last operation ended
    ret,                       \* what the last operation returned
    arg,                       \* history: the claim and value the operation was given
    claim_validators,          \* assert_claims: its argument
    idx,                       \* assert_claims: position in the for loop
    original_json,             \* assert_claims: original_session_claim_payload_json
    new_access_token_payload,  \* assert_claims: the local of that name
    aliased,                   \* that local is the session's own dict object
    validation_errors,         \* assert_claims: the local of that name
    pre,                       \* history: session state when the operation began
    trace,                     \* history: callbacks made by this assert_claims
    merges,                    \* history: merge_into_access_token_payload calls of this operation
    gwCalls,                   \* history: regenerate_access_token calls of this operation
    acked,                     \* history: payload the Gateway last returned
    storeCalls,                \* history: the other Gateway calls of this operation
    opsDone                    \* operations begun

\* the API functions of the session recipe (api/implementation.py)
VARIABLES
    api_pc,                    \* where the running API function stands
    api_op,                    \* the API function running, or last run
    request,                   \* api_options.request: its method and path
    api_args,                  \* the other arguments the API function was given
    session,                   \* the local of that name: what get_session returned
    api_calls,                 \* history: calls made on recipe_implementation
    api_result,                \* what the API function returned or raised
    api_pre,                   \* history: session operations begun and the flag when it began
    requestsDone               \* API functions begun

\* the singleton of the thirdpartyemailpassword recipe (recipe.py)
VARIABLES
    tpep_instance,             \* ThirdPartyEmailPasswordRecipe.__instance
    tp_mangled_instance,       \* ThirdPartyRecipe._ThirdPartyEmailPasswordRecipe__instance
    environ,                   \* os.environ
    funcs,                     \* the closures init has returned, by their config
    last_call,                 \* history: the last call, its outcome, the singleton before it
    callsDone                  \* calls made on the recipe class

sessionVars == <<access_token, new_access_token_info, access_token_payload, remove_cookies>>
loopVars == <<claim_validators, idx, original_json, new_access_token_payload,
              aliased, validation_errors>>
vars == <<access_token, new_access_token_info, access_token_payload, remove_cookies,
          pc, op, result, ret, arg, claim_validators, idx, original_json,
          new_access_token_payload, aliased, validation_errors,
          pre, trace, merges, gwCalls, acked, storeCalls, opsDone,
          api_pc, api_op, request, api_args, session, api_calls, api_result,
          api_pre, requestsDone,
          tpep_instance, tp_mangled_instance, environ, funcs, last_call, callsDone>>
apiVars == <<api_pc, api_op, request, api_args, session, api_calls, api_result,
             api_pre, requestsDone>>
recipeVars == <<tpep_instance, tp_mangled_instance, environ, funcs, last_call,
                callsDone>>

InitPayloads == {<<>>,
                 <<<<"role", "user">>>>,
                 <<<<"x", "admin">>, <<"role", "user">>>>,
                 <<<<"role", None>>, <<"x", "user">>>>}

Snapshot == [access_token |-> access_token,
             new_access_token_info |-> new_access_token_info,
             access_token_payload |-> access_token_payload]

SessionInit ==
    /\ access_token = 1
    /\ new_access_token_info = NoInfo
    /\ access_token_payload \in InitPayloads
    /\ remove_cookies = FALSE
    /\ pc = "idle"
    /\ op = "none"
    /\ result = "none"
    /\ ret = None
    /\ arg = [claim |-> NoClaim, value |-> None]
    /\ claim_validators = <<>>
    /\ idx = 1
    /\ original_json = <<>>
    /\ new_access_token_payload = <<>>
    /\ aliased = FALSE
    /\ validation_errors = <<>>
    /\ pre = [access_token |-> 1, new_access_token_info |-> NoInfo,
              access_token_payload |-> access_token_payload]
    /\ trace = <<>>
    /\ merges = <<>>
    /\ gwCalls = <<>>
    /\ acked = access_token_payload
    /\ storeCalls = <<>>
    /\ opsDone = 0

\* no API function has been called
NoRequest == [method |-> "-", path |-> "-"]
NoOverride == [callable |-> FALSE, returns |-> <<>>]
NoArgs == [anti_csrf_check |-> None, session_required |-> FALSE,
           override_global_claim_validators |-> NoOverride]
ApiInit ==
    /\ api_pc = "idle"
    /\ api_op = "none"
    /\ request = NoRequest
    /\ api_args = NoArgs
    /\ session = None
    /\ api_calls = <<>>
    /\ api_result = "none"
    /\ api_pre = [opsDone |-> 0, remove_cookies |-> FALSE]
    /\ requestsDone = 0

\* line 49: the class attribute before any call; the process environment
NoInstance == [is_none |-> TRUE, config |-> None, app_info |-> None]
Environs == {<<>>,
             <<<<"SUPERTOKENS_ENV", "testing">>>>,
             <<<<"SUPERTOKENS_ENV", "production">>>>}
NoCall == [fn |-> "none", outcome |-> "none", before |-> NoInstance]
RecipeInit(env) ==
    /\ tpep_instance = NoInstance
    /\ tp_mangled_instance = "absent"
    /\ environ = env
    /\ funcs = {}
    /\ last_call = NoCall
    /\ callsDone = 0

Init ==
    /\ SessionInit
    /\ ApiInit
    /\ RecipeInit(<<>>)

\* an operation begins: the request calls a method of the session
Begin(name, claim, value) ==
    /\ pc = "idle"
    /\ arg' = [claim |-> claim, value |-> value]
    /\ opsDone < MaxOps
    /\ opsDone' = opsDone + 1
    /\ op' = name
    /\ pre' = Snapshot
    /\ trace' = <<>>

\* ----------------------------------------------- update_access_token_payload
\* the state after awaiting the Gateway with new_payload and getting reply;
\* next is where the caller continues when no exception is raised
\* what line 78 stores: the payload of the Gateway's response
StoredPayloadLocal(new_payload, reply) == new_payload
StoredPayload(new_payload, reply) == reply.user_data_in_jwt

\* lines 81-85: the metadata of the token the Gateway returned
NewInfoStale(reply) ==
    [set |-> TRUE, token |-> access_token,
     expiry |-> reply.access_token.expiry,
     createdTime |-> reply.access_token.created_time]
NewInfo(reply) ==
    [set |-> TRUE, token |-> reply.access_token.token,
     expiry |-> reply.access_token.expiry,
     createdTime |-> reply.access_token.created_time]

\* what the await of line 72 and the check of line 75 raise: Unauthorised for
\* a session that is gone, the Gateway's own failure otherwise
RaisedWrapped(reply) == "Unauthorised"
Raised(reply) == IF reply.kind = "gone" THEN "Unauthorised" ELSE reply.kind

\* where an exception of the commit leaves the caller: out of the operation
AfterFailedCommitSwallowed(next) == next
AfterFailedCommit(next) == "idle"

update_access_token_payload(new_payload, reply, next) ==
    /\ gwCalls' = Append(IF pc = "idle" THEN <<>> ELSE gwCalls, [token |-> access_token, sent |-> new_payload,
                                    reply |-> reply])
    /\ IF reply.kind # "ok"
       THEN /\ result' = Raised(reply)
            /\ pc' = AfterFailedCommit(next)
            /\ UNCHANGED <<access_token, new_access_token_info,
                           access_token_payload, acked>>
       ELSE /\ access_token_payload' = StoredPayload(new_payload, reply)
            /\ acked' = reply.user_data_in_jwt
            /\ IF reply.access_token.present
               THEN /\ access_token' = reply.access_token.token
                    /\ new_access_token_info' = NewInfo(reply)
               ELSE UNCHANGED <<access_token, new_access_token_info>>
            /\ pc' = next
            /\ result' = IF next = "idle" THEN "ok" ELSE result

\* ------------------------------------------- merge_into_access_token_payload
merge_into_access_token_payload(update, next) ==
    /\ merges' = Append(IF pc = "idle" THEN <<>> ELSE merges,
                        [base |-> access_token_payload, update |-> update])
    /\ \E reply \in regenerate_access_token(access_token,
                        UpdatePayload(access_token_payload, update)) :
           update_access_token_payload(UpdatePayload(access_token_payload, update),
                                       reply, next)

\* Session.session_handle, fixed at construction
session_handle == "handle"

\* a call of the Gateway other than regenerate_access_token, and its outcome
StoreCall(fn, reply) ==
    [fn |-> fn, handle |-> session_handle, reply |-> reply, cookies |-> remove_cookies]

NoStoreCall == storeCalls' = <<>>

\* the locals of assert_claims do not exist in the other operations
NoLoop ==
    /\ claim_validators' = <<>>
    /\ idx' = 1
    /\ original_json' = <<>>
    /\ new_access_token_payload' = <<>>
    /\ aliased' = FALSE
    /\ validation_errors' = <<>>

\* an operation that ends without reaching the Gateway's regenerate call
EndsWithoutCommit(how) ==
    /\ result' = how
    /\ pc' = "idle"
    /\ merges' = IF pc = "idle" THEN <<>> ELSE merges
    /\ gwCalls' = IF pc = "idle" THEN <<>> ELSE gwCalls

\* a call of the method itself, with any update map
MergeIntoAccessTokenPayload ==
    \E update \in Payloads :
        /\ Begin("merge_into_access_token_payload", NoClaim, None)
        /\ NoStoreCall
        /\ merge_into_access_token_payload(update, "idle")
        /\ ret' = None
        /\ NoLoop
        /\ UNCHANGED remove_cookies

\* ------------------------------------------------------ claim mutation helpers
\* claim.build(user_id): the claim's update for a fetched value, {} for none
BuildResults(claim) ==
    {<<>>} \cup {add_to_payload_(claim, <<>>, v) : v \in Values}

FetchAndSetClaim ==
    \E claim \in Claims :
        /\ Begin("fetch_and_set_claim", claim, None)
        /\ NoStoreCall
        /\ \/ \E f \in Failures :
                /\ EndsWithoutCommit(f)
                /\ UNCHANGED <<access_token, new_access_token_info,
                               access_token_payload, acked>>
           \/ \E update \in BuildResults(claim) :
                  merge_into_access_token_payload(update, "idle")
        /\ ret' = None
        /\ NoLoop
        /\ UNCHANGED remove_cookies

\* update = claim.add_to_payload_({}, value): built on an empty payload
SetClaimUpdateOnCurrent(claim, value) ==
    add_to_payload_(claim, access_token_payload, value)
SetClaimUpdate(claim, value) == add_to_payload_(claim, <<>>, value)

SetClaimValue ==
    \E claim \in Claims, value \in Values \cup {None} :
        /\ Begin("set_claim_value", claim, value)
        /\ NoStoreCall
        /\ merge_into_access_token_payload(SetClaimUpdate(claim, value), "idle")
        /\ ret' = None
        /\ NoLoop
        /\ UNCHANGED remove_cookies

\* claim.get_value_from_payload(self.get_access_token_payload())
ClaimReadNothing(claim) == None
ClaimRead(claim) == get_value_from_payload(claim, access_token_payload)

GetClaimValue ==
    \E claim \in Claims :
        /\ Begin("get_claim_value", claim, None)
        /\ NoStoreCall
        /\ ret' = ClaimRead(claim)
        /\ EndsWithoutCommit("ok")
        /\ NoLoop
    /\ UNCHANGED <<sessionVars, acked>>

RemoveClaim ==
    \E claim \in Claims :
        /\ Begin("remove_claim", claim, None)
        /\ NoStoreCall
        /\ merge_into_access_token_payload(
               remove_from_payload_by_merge_(claim, <<>>), "idle")
        /\ ret' = None
        /\ NoLoop
        /\ UNCHANGED remove_cookies

\* ------------------------------------------------------------- the facade
\* the flag while recipe_implementation.revoke_session is awaited: untouched
CookiesWhileRevokingSet == TRUE
CookiesWhileRevoking == remove_cookies

\* revoke_session is called and awaits the Gateway with the session's handle
RevokeSession ==
    /\ Begin("revoke_session", NoClaim, None)
    /\ storeCalls' = <<StoreCall("revoke_session", "pending")>>
    /\ remove_cookies' = CookiesWhileRevoking
    /\ pc' = "revoke_session"
    /\ result' = "running"
    /\ merges' = <<>>
    /\ gwCalls' = <<>>
    /\ ret' = None
    /\ NoLoop
    /\ UNCHANGED <<access_token, new_access_token_info, access_token_payload, acked>>

\* the Gateway's revoke_session returns, and the flag is set; or it fails
RevokeReturns ==
    /\ pc = "revoke_session"
    /\ \/ /\ remove_cookies' = TRUE
          /\ storeCalls' = <<[storeCalls[1] EXCEPT !.reply = "returned"]>>
          /\ EndsWithoutCommit("ok")
       \/ \E f \in Failures :
            /\ storeCalls' = <<[storeCalls[1] EXCEPT !.reply = f]>>
            /\ EndsWithoutCommit(f)
            /\ UNCHANGED remove_cookies
    /\ UNCHANGED <<access_token, new_access_token_info, access_token_payload,
                   loopVars, ret, arg, acked, trace, op, pre, opsDone>>

\* the session-data blob the store keeps, apart from the payload
SessionDataBlobs == {"blob"}

\* get_session_information: absent, or the store's record of the session
SessionInformation ==
    {[present |-> FALSE, session_data |-> None, time_created |-> 0, expiry |-> 0]}
    \cup {[present |-> TRUE, session_data |-> d, time_created |-> access_token,
           expiry |-> access_token + TokenLifetime] : d \in SessionDataBlobs}

\* if session_info is None: raise_unauthorised_exception
InfoResultIgnored(info) == "ok"
InfoResult(info) == IF info.present THEN "ok" ELSE "Unauthorised"

\* get_session_data, get_time_created, get_expiry: one read of the store
SessionInfoRead(name) ==
    /\ Begin(name, NoClaim, None)
    /\ \/ \E info \in SessionInformation :
            /\ storeCalls' = <<StoreCall("get_session_information",
                                         IF info.present THEN "info" ELSE "absent")>>
            /\ ret' = IF InfoResult(info) # "ok" THEN None
                      ELSE CASE name = "get_session_data" -> info.session_data
                             [] name = "get_time_created" -> info.time_created
                             [] OTHER -> info.expiry
            /\ EndsWithoutCommit(InfoResult(info))
       \/ \E f \in Failures :
            /\ storeCalls' = <<StoreCall("get_session_information", f)>>
            /\ ret' = None
            /\ EndsWithoutCommit(f)
    /\ NoLoop
    /\ UNCHANGED <<sessionVars, acked>>

GetSessionData == SessionInfoRead("get_session_data")

GetTimeCreated == SessionInfoRead("get_time_created")

GetExpiry == SessionInfoRead("get_expiry")

\* if not updated: raise_unauthorised_exception
UpdatedResult(updated) == IF updated THEN "ok" ELSE "Unauthorised"

UpdateSessionData ==
    /\ Begin("update_session_data", NoClaim, None)
    /\ \/ \E updated \in BOOLEAN :
            /\ storeCalls' = <<StoreCall("update_session_data",
                                         IF updated THEN "True" ELSE "False")>>
            /\ EndsWithoutCommit(UpdatedResult(updated))
       \/ \E f \in Failures :
            /\ storeCalls' = <<StoreCall("update_session_data", f)>>
            /\ EndsWithoutCommit(f)
    /\ ret' = None
    /\ NoLoop
    /\ UNCHANGED <<sessionVars, acked>>

\* ------------------------------------------------------------ assert_claims
\* the call: the original payload is serialised, the local is bound to the
\* session's own dict
AssertClaims ==
    \E validators \in {l \in ValidatorLists(MaxValidators) : DistinctIds(l)} :
        /\ Begin("assert_claims", NoClaim, None)
        /\ NoStoreCall
        /\ claim_validators' = validators
        /\ idx' = 1
        /\ original_json' = JsonDumps(access_token_payload)
        /\ new_access_token_payload' = access_token_payload
        /\ aliased' = TRUE
        /\ validation_errors' = <<>>
        /\ merges' = <<>>
        /\ gwCalls' = <<>>
        /\ result' = "running"
        /\ ret' = None
        /\ pc' = IF validators = <<>> THEN "commit" ELSE "should_refetch"
        /\ UNCHANGED <<sessionVars, acked>>

Event(ev, payload, value) == [ev |-> ev, i |-> idx, payload |-> payload, value |-> value]

\* an exception or a cancellation leaves assert_claims from inside the loop
LoopFails(f) ==
    /\ EndsWithoutCommit(f)
    /\ UNCHANGED <<sessionVars, loopVars, ret, arg, acked, op, pre, opsDone, storeCalls>>

\* the condition of the if: a validator without claim is not asked
ShouldRefetch ==
    /\ pc = "should_refetch"
    /\ IF claim_validators[idx].claim = NoClaim
       THEN /\ pc' = "validate"
            /\ UNCHANGED <<trace, result, merges, gwCalls>>
            /\ UNCHANGED <<sessionVars, loopVars, ret, arg, acked, op, pre, opsDone, storeCalls>>
       ELSE \/ \E refetch \in {"True", "False"} :
                 /\ trace' = Append(trace, Event("should_refetch",
                                                 new_access_token_payload, refetch))
                 /\ pc' = IF refetch = "True" THEN "fetch_value" ELSE "validate"
                 /\ UNCHANGED <<result, merges, gwCalls>>
                 /\ UNCHANGED <<sessionVars, loopVars, ret, arg, acked, op, pre, opsDone, storeCalls>>
            \/ \E f \in Failures :
                 /\ trace' = Append(trace, Event("should_refetch",
                                                 new_access_token_payload, f))
                 /\ LoopFails(f)

\* new_access_token_payload = validator.claim.add_to_payload_(...): an
\* in-place claim writes into the dict it is given, which is the session's
\* own dict as long as the local is still bound to it
AddToPayloadResultDropped(claim, value) ==
    /\ IF claim.mode = "inplace"
       THEN /\ new_access_token_payload' =
                  add_to_payload_(claim, new_access_token_payload, value)
            /\ access_token_payload' =
                  IF aliased
                  THEN add_to_payload_(claim, access_token_payload, value)
                  ELSE access_token_payload
       ELSE UNCHANGED <<new_access_token_payload, access_token_payload>>
    /\ UNCHANGED aliased
AddToPayloadOnEmpty(claim, value) ==
    /\ new_access_token_payload' = add_to_payload_(claim, <<>>, value)
    /\ aliased' = FALSE
    /\ UNCHANGED access_token_payload
AddToPayload(claim, value) ==
    /\ new_access_token_payload' = add_to_payload_(claim, new_access_token_payload, value)
    /\ IF claim.mode = "inplace"
       THEN /\ access_token_payload' =
                  IF aliased
                  THEN add_to_payload_(claim, access_token_payload, value)
                  ELSE access_token_payload
            /\ UNCHANGED aliased
       ELSE /\ aliased' = FALSE
            /\ UNCHANGED access_token_payload

FetchValue ==
    /\ pc = "fetch_value"
    /\ \/ \E value \in Values \cup {None} :
            /\ trace' = Append(trace, Event("fetch_value",
                                            new_access_token_payload, value))
            /\ IF value # None
               THEN AddToPayload(claim_validators[idx].claim, value)
               ELSE UNCHANGED <<new_access_token_payload, aliased, access_token_payload>>
            /\ pc' = "validate"
            /\ UNCHANGED <<access_token, new_access_token_info, remove_cookies,
                           claim_validators, idx, original_json, validation_errors,
                           result, ret, arg, merges, gwCalls, acked, op, pre, opsDone, storeCalls>>
       \/ \E f \in Failures :
            /\ trace' = Append(trace, Event("fetch_value",
                                            new_access_token_payload, f))
            /\ LoopFails(f)

\* the for loop goes on to the next validator whatever the verdict was
AfterValidateShortCircuit(res) ==
    IF idx = Len(claim_validators) \/ res # "valid" THEN "commit" ELSE "should_refetch"
AfterValidate(res) ==
    IF idx = Len(claim_validators) THEN "commit" ELSE "should_refetch"

\* validator.validate(new_access_token_payload) and the append to the errors
Validate ==
    /\ pc = "validate"
    /\ \/ \E res \in {"valid"} \cup Reasons :
            /\ trace' = Append(trace, Event("validate", new_access_token_payload, res))
            /\ validation_errors' =
                  IF res = "valid" THEN validation_errors
                  ELSE Append(validation_errors,
                              [id |-> claim_validators[idx].id, reason |-> res])
            /\ idx' = idx + 1
            /\ pc' = AfterValidate(res)
            /\ UNCHANGED <<sessionVars, claim_validators, original_json,
                           new_access_token_payload, aliased,
                           result, ret, arg, merges, gwCalls, acked, op, pre, opsDone, storeCalls>>
       \/ \E f \in Failures :
            /\ trace' = Append(trace, Event("validate", new_access_token_payload, f))
            /\ LoopFails(f)

\* the comparison of the serialised payloads, and the commit
PayloadChangedAndValid ==
    JsonDumps(new_access_token_payload) # original_json /\ validation_errors = <<>>
PayloadChangedAlways == TRUE
PayloadChanged == JsonDumps(new_access_token_payload) # original_json

\* the update handed to merge_into_access_token_payload: the whole local payload
CommitUpdateSessionPayload == access_token_payload
CommitUpdate == new_access_token_payload

CommitStep ==
    /\ pc = "commit"
    /\ IF PayloadChanged
       THEN merge_into_access_token_payload(CommitUpdate, "raise")
       ELSE /\ pc' = "raise"
            /\ UNCHANGED <<access_token, new_access_token_info, access_token_payload,
                           result, merges, gwCalls, acked>>
    /\ UNCHANGED <<remove_cookies, loopVars, ret, arg, trace, op, pre, opsDone, storeCalls>>

\* raise_invalid_claims_exception, or the return
RaiseOrReturn ==
    /\ pc = "raise"
    /\ result' = IF Len(validation_errors) > 0 THEN "InvalidClaims" ELSE "ok"
    /\ pc' = "idle"
    /\ UNCHANGED <<sessionVars, loopVars, ret, arg, trace, merges, gwCalls, acked,
                   op, pre, opsDone, storeCalls>>

\* ------------------------------------------------------------ specification
\* a step of a method of the session, called by the application itself
OnSession(step) == step /\ UNCHANGED <<apiVars, recipeVars>>

Next ==
    \/ OnSession(AssertClaims)
    \/ OnSession(ShouldRefetch)
    \/ OnSession(FetchValue)
    \/ OnSession(Validate)
    \/ OnSession(CommitStep)
    \/ OnSession(RaiseOrReturn)
    \/ OnSession(MergeIntoAccessTokenPayload)
    \/ OnSession(FetchAndSetClaim)
    \/ OnSession(SetClaimValue)
    \/ OnSession(GetClaimValue)
    \/ OnSession(RemoveClaim)
    \/ OnSession(RevokeSession)
    \/ OnSession(RevokeReturns)
    \/ OnSession(GetSessionData)
    \/ OnSession(GetTimeCreated)
    \/ OnSession(GetExpiry)
    \/ OnSession(UpdateSessionData)

Spec == Init /\ [][Next]_vars

TypeOK ==
    /\ access_token \in 1..(MaxOps + 1)
    /\ access_token_payload \in Payloads
    /\ pc \in {"idle", "should_refetch", "fetch_value", "validate", "commit", "raise",
              "revoke_session"}
    /\ idx \in 1..(MaxValidators + 1)

\* ------------------------------------------------------- the API functions
sessionModelVars ==
    <<access_token, new_access_token_info, access_token_payload, remove_cookies,
      pc, op, result, ret, arg, claim_validators, idx, original_json,
      new_access_token_payload, aliased, validation_errors,
      pre, trace, merges, gwCalls, acked, storeCalls, opsDone>>

Methods == {"GET", "POST", "post", "OPTIONS", "trace"}
Paths == {"/auth/session/refresh", "/auth/session/refresh/", "/api/user"}

\* utils.normalise_http_method: the method in lower case
normalise_http_method(m) ==
    CASE m = "GET" -> "get"
      [] m \in {"POST", "post"} -> "post"
      [] m = "OPTIONS" -> "options"
      [] m = "trace" -> "trace"

\* NormalisedURLPath: the path without its trailing slash
NormalisedURLPath(p) ==
    IF p = "/auth/session/refresh/" THEN "/auth/session/refresh" ELSE p

\* line 80: api_options.config.refresh_token_path, a normalised path
refresh_token_path == NormalisedURLPath("/auth/session/refresh")

\* an override of the global claim validators: a callable, by the list it returns
Overrides == {NoOverride, [callable |-> TRUE, returns |-> <<"B">>]}
ApiArgs == [anti_csrf_check : {None, "True"},
            session_required : BOOLEAN,
            override_global_claim_validators : Overrides]

\* line 53: lambda _, __, ___: []
EmptyValidators == [callable |-> TRUE, returns |-> <<>>]

\* lines 48-54: the arguments signout_post gives get_session
SignoutArgs == [anti_csrf_check |-> None, session_required |-> TRUE,
                override_global_claim_validators |-> EmptyValidators]

\* what recipe_implementation's functions answer: a session, None or a failure
GetSessionReplies == {"session", None, "Unauthorised", "error"}
RefreshSessionReplies == {"session", "Unauthorised", "error"}
AssertClaimsReplies == {"ok", "InvalidClaims", "Unauthorised", "error"}

ApiCall(fn, req, a, sess) ==
    [fn |-> fn, request |-> req, args |-> a, session |-> sess, reply |-> "pending"]

Replied(r) ==
    [n \in 1..Len(api_calls) |->
        IF n = Len(api_calls) THEN [api_calls[n] EXCEPT !.reply = r] ELSE api_calls[n]]

ApiBegin(name, req, a) ==
    /\ api_pc = "idle"
    /\ requestsDone < MaxRequests
    /\ requestsDone' = requestsDone + 1
    /\ api_op' = name
    /\ request' = req
    /\ api_args' = a
    /\ session' = None
    /\ api_pre' = [opsDone |-> opsDone, remove_cookies |-> remove_cookies]

ApiReturns(value) ==
    /\ api_result' = value
    /\ api_pc' = "idle"

\* line 93: whether verify_session goes on to assert_claims
ChecksClaimsAlways(sess) == TRUE
ChecksClaims(sess) == sess # None

\* lines 76-91: verify_session up to its first await
VerifySession ==
    \E m \in Methods, p \in Paths, a \in ApiArgs :
        LET req == [method |-> m, path |-> p]
            method == normalise_http_method(m)
            incoming_path == NormalisedURLPath(p)
        IN  /\ ApiBegin("verify_session", req, a)
            /\ IF method \in {"options", "trace"}
               THEN /\ api_calls' = <<>>
                    /\ ApiReturns(None)
               ELSE IF incoming_path = refresh_token_path /\ method = "post"
               THEN /\ api_calls' = <<ApiCall("refresh_session", req, NoArgs, None)>>
                    /\ api_pc' = "refresh_session"
                    /\ api_result' = "running"
               ELSE /\ api_calls' = <<ApiCall("get_session", req, a, None)>>
                    /\ api_pc' = "get_session"
                    /\ api_result' = "running"
            /\ UNCHANGED <<sessionModelVars, recipeVars>>

\* lines 82-84: refresh_session answers, and verify_session returns its answer
RefreshSessionReturns ==
    /\ api_pc = "refresh_session"
    /\ \E r \in RefreshSessionReplies :
          /\ api_calls' = Replied(r)
          /\ ApiReturns(r)
    /\ UNCHANGED <<api_op, request, api_args, session, api_pre, requestsDone,
                   sessionModelVars, recipeVars>>

\* lines 85-98: get_session answers; a session goes on to assert_claims
GetSessionReturns ==
    /\ api_op = "verify_session"
    /\ api_pc = "get_session"
    /\ \E r \in GetSessionReplies :
          IF r \in {"Unauthorised", "error"}
          THEN /\ api_calls' = Replied(r)
               /\ ApiReturns(r)
               /\ UNCHANGED session
          ELSE /\ session' = r
               /\ IF ChecksClaims(r)
                  THEN /\ api_calls' = Append(Replied(r),
                              ApiCall("assert_claims", NoRequest,
                                      [NoArgs EXCEPT !.override_global_claim_validators =
                                           api_args.override_global_claim_validators],
                                      r))
                       /\ api_pc' = "assert_claims"
                       /\ UNCHANGED api_result
                  ELSE /\ api_calls' = Replied(r)
                       /\ ApiReturns(r)
    /\ UNCHANGED <<api_op, request, api_args, api_pre, requestsDone,
                   sessionModelVars, recipeVars>>

\* lines 94-100: assert_claims answers, and the session is returned
AssertClaimsReturns ==
    /\ api_pc = "assert_claims"
    /\ \E r \in AssertClaimsReplies :
          /\ api_calls' = Replied(r)
          /\ ApiReturns(IF r = "ok" THEN session ELSE r)
    /\ UNCHANGED <<api_op, request, api_args, session, api_pre, requestsDone,
                   sessionModelVars, recipeVars>>

\* lines 55-56: what signout_post does with Unauthorised from get_session
SignoutOnUnauthorisedRaises == "Unauthorised"
SignoutOnUnauthorised == "SignOutOkayResponse"

\* lines 47-54: signout_post up to its first await
SignoutPost ==
    LET req == [method |-> "POST", path |-> "/auth/signout"]
    IN  /\ ApiBegin("signout_post", req, NoArgs)
        /\ api_calls' = <<ApiCall("get_session", req, SignoutArgs, None)>>
        /\ api_pc' = "get_session"
        /\ api_result' = "running"
        /\ UNCHANGED <<sessionModelVars, recipeVars>>

\* lines 55-59: get_session answers signout_post
SignoutGetSessionReturns ==
    /\ api_op = "signout_post"
    /\ api_pc = "get_session"
    /\ \E r \in GetSessionReplies :
          /\ api_calls' = Replied(r)
          /\ CASE r = "Unauthorised" ->
                    ApiReturns(SignoutOnUnauthorised) /\ UNCHANGED session
               [] r = "error" ->
                    ApiReturns(r) /\ UNCHANGED session
               [] r = None ->
                    ApiReturns("Exception") /\ session' = r
               [] OTHER ->
                    /\ session' = r
                    /\ api_pc' = "revoke_session"
                    /\ UNCHANGED api_result
    /\ UNCHANGED <<api_op, request, api_args, api_pre, requestsDone,
                   sessionModelVars, recipeVars>>

\* line 60: session.revoke_session is called
SignoutRevokes ==
    /\ api_pc = "revoke_session"
    /\ RevokeSession
    /\ api_pc' = "revoking"
    /\ UNCHANGED <<api_op, request, api_args, session, api_calls, api_result,
                   api_pre, requestsDone, recipeVars>>

\* lines 60-61: revoke_session returns and signout_post answers, or it fails
SignoutRevokeReturns ==
    /\ api_pc = "revoking"
    /\ RevokeReturns
    /\ ApiReturns(IF result' = "ok" THEN "SignOutOkayResponse" ELSE result')
    /\ UNCHANGED <<api_op, request, api_args, session, api_calls,
                   api_pre, requestsDone, recipeVars>>

ApiStart ==
    /\ Init
    /\ access_token_payload = <<>>

NextApi ==
    \/ VerifySession
    \/ RefreshSessionReturns
    \/ GetSessionReturns
    \/ AssertClaimsReturns
    \/ SignoutPost
    \/ SignoutGetSessionReturns
    \/ SignoutRevokes
    \/ SignoutRevokeReturns

SpecApi == ApiStart /\ [][NextApi]_vars

\* ------------------------------------------------- the recipe's singleton
Configs == {None, "config"}

\* lines 168-169: the object the constructor gives, when it does not raise
Instance(config) == [is_none |-> FALSE, config |-> config, app_info |-> "app_info"]
ConstructorOutcomes == {"returned", "error"}

RecipeCall(fn, outcome) ==
    /\ callsDone < MaxCalls
    /\ callsDone' = callsDone + 1
    /\ last_call' = [fn |-> fn, outcome |-> outcome, before |-> tpep_instance]

\* lines 185-186: SUPERTOKENS_ENV is set to testing
InTesting ==
    /\ DictHas(environ, "SUPERTOKENS_ENV")
    /\ DictGet(environ, "SUPERTOKENS_ENV") = "testing"

\* lines 165-166, 175: init keeps the config in a closure and returns it
InitRecipe ==
    \E config \in Configs :
        /\ RecipeCall("init", "returned")
        /\ funcs' = funcs \cup {config}
        /\ UNCHANGED <<tpep_instance, tp_mangled_instance, environ,
                       sessionModelVars, apiVars>>

\* lines 166-173: the closure is called with the app_info
Func ==
    \E config \in funcs :
        /\ IF tpep_instance.is_none
           THEN \E outcome \in ConstructorOutcomes :
                    /\ RecipeCall("func", outcome)
                    /\ tpep_instance' = IF outcome = "returned"
                                        THEN Instance(config)
                                        ELSE tpep_instance
           ELSE /\ RecipeCall("func", "already been initialised")
                /\ UNCHANGED tpep_instance
        /\ UNCHANGED <<tp_mangled_instance, environ, funcs,
                       sessionModelVars, apiVars>>

\* lines 178-181
GetInstance ==
    /\ RecipeCall("get_instance",
                  IF ~tpep_instance.is_none THEN "returned"
                  ELSE "Initialisation not done")
    /\ UNCHANGED <<tpep_instance, tp_mangled_instance, environ, funcs,
                   sessionModelVars, apiVars>>

\* lines 184-188: in the body of this class, ThirdPartyRecipe.__instance is the
\* attribute _ThirdPartyEmailPasswordRecipe__instance of ThirdPartyRecipe
Reset ==
    /\ IF ~InTesting
       THEN /\ RecipeCall("reset", "calling testing function in non testing env")
            /\ UNCHANGED tp_mangled_instance
       ELSE /\ RecipeCall("reset", "returned")
            /\ tp_mangled_instance' = None
    /\ UNCHANGED <<tpep_instance, environ, funcs, sessionModelVars, apiVars>>

RecipeStart ==
    /\ SessionInit
    /\ access_token_payload = <<>>
    /\ ApiInit
    /\ \E env \in Environs : RecipeInit(env)

NextRecipe ==
    \/ InitRecipe
    \/ Func
    \/ GetInstance
    \/ Reset

SpecRecipe == RecipeStart /\ [][NextRecipe]_vars

\* ------------------------------------------------- what a call did, from history
AssertEnded(how) == pc = "idle" /\ op = "assert_claims" /\ result = how

\* the positions of the trace where a refetch returned a value
FetchedAt == {n \in 1..Len(trace) :
                 trace[n].ev = "fetch_value" /\ trace[n].value \in Values}

KeyOf(n) == claim_validators[trace[n].i].claim.key

\* the keys refetched before position n of the trace, and the last value of each
RefetchedBefore(n) == {KeyOf(m) : m \in {f \in FetchedAt : f < n}}

LastFetched(k, n) ==
    LET last == CHOOSE m \in FetchedAt :
                    /\ m < n
                    /\ KeyOf(m) = k
                    /\ \A o \in FetchedAt : (o < n /\ KeyOf(o) = k) => o <= m
    IN  trace[last].value

\* some refetch of this call left its key with another value than the original
RefetchChanged ==
    \E k \in RefetchedBefore(Len(trace) + 1) :
        \/ ~DictHas(pre.access_token_payload, k)
        \/ DictGet(pre.access_token_payload, k) # LastFetched(k, Len(trace) + 1)

Invalid == {n \in 1..Len(trace) : trace[n].ev = "validate" /\ trace[n].value \in Reasons}

\* C1: when a refetch changed the payload and a validator failed, the merge and
\* the Gateway's regenerate call have completed before InvalidClaims is raised,
\* and the session's payload then holds the refetched values.
CommitBeforeReport ==
    (/\ op = "assert_claims"
     /\ pc = "raise" \/ AssertEnded("InvalidClaims")
     /\ RefetchChanged
     /\ Invalid # {})
    => /\ Len(merges) = 1
       /\ Len(gwCalls) = 1
       /\ gwCalls[1].reply.kind = "ok"
       /\ \A k \in RefetchedBefore(Len(trace) + 1) :
              /\ DictHas(access_token_payload, k)
              /\ DictGet(access_token_payload, k) = LastFetched(k, Len(trace) + 1)

CommitBeforeReportWitness ==
    /\ AssertEnded("InvalidClaims")
    /\ RefetchChanged
    /\ Len(gwCalls) = 1
    /\ \E n \in FetchedAt : \E m \in Invalid : n < m /\ trace[n].i < trace[m].i

Rank(ev) == CASE ev = "should_refetch" -> 1
              [] ev = "fetch_value" -> 2
              [] OTHER -> 3

\* the payload a callback at position n of the trace has to be given
SeesEarlierRefetches(n) ==
    /\ DictKeys(trace[n].payload) =
           DictKeys(pre.access_token_payload) \cup RefetchedBefore(n)
    /\ \A k \in DictKeys(trace[n].payload) :
           DictGet(trace[n].payload, k) =
               IF k \in RefetchedBefore(n) THEN LastFetched(k, n)
               ELSE DictGet(pre.access_token_payload, k)

\* C2: the callbacks of one assert_claims call come in list order, for each
\* validator should_refetch, then fetch_value, then validate, and the payload
\* given to should_refetch and validate holds every earlier refetch of the call.
ListOrder ==
    op = "assert_claims" =>
        /\ \A a, b \in 1..Len(trace) :
               a < b => \/ trace[a].i < trace[b].i
                        \/ trace[a].i = trace[b].i /\ Rank(trace[a].ev) < Rank(trace[b].ev)
        /\ \A n \in 1..Len(trace) :
               /\ trace[n].i <= idx
               /\ trace[n].ev = "fetch_value" =>
                      n > 1 /\ trace[n - 1].ev = "should_refetch"
                            /\ trace[n - 1].i = trace[n].i
               /\ trace[n].ev \in {"should_refetch", "validate"} =>
                      SeesEarlierRefetches(n)

ListOrderWitness ==
    /\ AssertEnded("ok")
    /\ Len(claim_validators) = 2
    /\ \E n \in FetchedAt :
           /\ trace[n].i = 1
           /\ KeyOf(n) = "x"
           /\ ~DictHas(pre.access_token_payload, "x")
           /\ \E m \in 1..Len(trace) :
                  /\ trace[m].i = 2
                  /\ trace[m].ev = "should_refetch"
                  /\ DictGet(trace[m].payload, "x") = trace[n].value

NoRefetch == \A n \in 1..Len(trace) : trace[n].ev # "fetch_value"

\* C3: an assert_claims call in which no validator triggers a refetch never
\* calls merge_into_access_token_payload nor the Gateway, and leaves the access
\* token, its metadata and the payload as they were, however the call ends.
NoSpuriousCommit ==
    (op = "assert_claims" /\ NoRefetch) =>
        /\ merges = <<>>
        /\ gwCalls = <<>>
        /\ Snapshot = pre

NoSpuriousCommitWitness ==
    /\ AssertEnded("InvalidClaims")
    /\ NoRefetch
    /\ Len(claim_validators) = 2
    /\ claim_validators[1].claim # NoClaim
    /\ merges = <<>>

\* the errors the validate results of this call call for, in trace order
RECURSIVE ErrorsOf(_)
ErrorsOf(t) ==
    IF t = <<>> THEN <<>>
    ELSE LET e == t[Len(t)]
             before == ErrorsOf(SubSeq(t, 1, Len(t) - 1))
         IN  IF e.ev = "validate" /\ e.value \in Reasons
             THEN Append(before, [id |-> claim_validators[e.i].id, reason |-> e.value])
             ELSE before

Validated == {trace[n].i : n \in {m \in 1..Len(trace) : trace[m].ev = "validate"}}

\* C4 as stated: assert_claims fails with InvalidClaims exactly when some
\* validator's result is not valid.
InvalidClaimsIffInvalid ==
    (pc = "idle" /\ op = "assert_claims") =>
        (result = "InvalidClaims" <=> Invalid # {})

\* C4: an assert_claims call that no callback failure and no commit failure
\* ends fails with InvalidClaims exactly when some validator's result is not
\* valid; the errors are one {id, reason} per failing validator in list order,
\* and every validator was evaluated.
InvalidClaimsIffInvalidUnlessFailed ==
    /\ (AssertEnded("ok") \/ AssertEnded("InvalidClaims")) =>
           /\ result = "InvalidClaims" <=> Invalid # {}
           /\ validation_errors = ErrorsOf(trace)
           /\ Validated = 1..Len(claim_validators)
           /\ Cardinality({m \in 1..Len(trace) : trace[m].ev = "validate"})
                  = Len(claim_validators)
    /\ (pc = "idle" /\ op = "assert_claims"
        /\ result \notin {"ok", "InvalidClaims"}) =>
           \/ gwCalls # <<>> /\ gwCalls[1].reply.kind # "ok"
           \/ trace # <<>> /\ trace[Len(trace)].value \in Failures

InvalidClaimsWitness ==
    /\ AssertEnded("InvalidClaims")
    /\ Len(validation_errors) = 2
    /\ validation_errors[1].id = "C"
    /\ validation_errors[2].id = "A"

\* the payload sent is the reference merge of update over base
ReferenceMerge(base, update, sent) ==
    /\ \A a, b \in 1..Len(sent) : sent[a][1] = sent[b][1] => a = b
    /\ \A k \in DictKeys(base) \cup DictKeys(update) \cup DictKeys(sent) :
          IF DictHas(update, k)
          THEN IF DictGet(update, k) = None
               THEN ~DictHas(sent, k)
               ELSE DictHas(sent, k) /\ DictGet(sent, k) = DictGet(update, k)
          ELSE /\ DictHas(sent, k) <=> DictHas(base, k)
               /\ DictGet(sent, k) = DictGet(base, k)

\* C5: the payload merge_into_access_token_payload passes to the Gateway is
\* the reference merge: tombstoned keys absent, the update's other keys with
\* the update's values, the base's other keys with the base's values.
MergeIsReferenceMerge ==
    /\ Len(merges) = Len(gwCalls)
    /\ \A n \in 1..Len(merges) :
           ReferenceMerge(merges[n].base, merges[n].update, gwCalls[n].sent)

MergeIsReferenceMergeWitness ==
    /\ op = "merge_into_access_token_payload"
    /\ Len(merges) = 1
    /\ merges[1].base = <<<<"role", "user">>>>
    /\ merges[1].update = <<<<"x", None>>, <<"role", None>>>>
    /\ gwCalls[1].sent = <<>>

CommitOps == {"assert_claims", "merge_into_access_token_payload",
              "fetch_and_set_claim", "set_claim_value", "remove_claim"}

LastCall == gwCalls[Len(gwCalls)]

\* C6: when the Gateway's regenerate call returns absent, an operation that
\* commits through merge_into_access_token_payload fails with Unauthorised and
\* leaves the access token, its metadata and the payload as before the call.
GoneLeavesSessionAsBefore ==
    (/\ pc = "idle"
     /\ op \in CommitOps
     /\ gwCalls # <<>>
     /\ LastCall.reply.kind = "gone")
    => /\ result = "Unauthorised"
       /\ Snapshot = pre

\* C7: after a successful merge_into_access_token_payload the session's
\* payload is the payload of the Gateway's response, also when that is not
\* the merged payload that was sent.
PayloadIsGatewayPayload ==
    (gwCalls # <<>> /\ LastCall.reply.kind = "ok") =>
        access_token_payload = LastCall.reply.user_data_in_jwt

PayloadIsGatewayPayloadWitness ==
    /\ pc = "idle"
    /\ op = "set_claim_value"
    /\ result = "ok"
    /\ LastCall.reply.user_data_in_jwt # LastCall.sent
    /\ access_token_payload = LastCall.reply.user_data_in_jwt
    /\ access_token_payload # pre.access_token_payload

\* C8: invariant I1, the session's payload is the payload the Gateway last
\* acknowledged.
PayloadIsAcked == access_token_payload = acked

\* C9: as long as the Gateway has not acknowledged a commit of the running
\* operation, and after an operation that ended without one, the access token,
\* its metadata and the payload are those of before the call.
NoWriteBeforeAck ==
    (/\ op \in CommitOps
     /\ gwCalls = <<>> \/ LastCall.reply.kind # "ok")
    => Snapshot = pre

RoleTombstone == <<<<"role", None>>>>

RemovedRole ==
    /\ pc = "idle"
    /\ op = "remove_claim"
    /\ arg.claim.key = "role"

\* C10 as stated: after remove_claim of the claim owning "role" the payload
\* has no "role" key, and the Gateway received the update map {"role": None}.
GatewayReceivesTombstone ==
    RemovedRole =>
        /\ result = "ok" => ~DictHas(access_token_payload, "role")
        /\ gwCalls # <<>>
        /\ gwCalls[1].sent = RoleTombstone

\* C10: remove_claim of the claim owning "role" hands the update map
\* {"role": None} to merge_into_access_token_payload; the Gateway receives the
\* merged payload, which is the payload of before the call without "role";
\* the session's payload becomes what the Gateway returns, so it has no
\* "role" and the other keys unchanged when the Gateway returns what it got.
GatewayReceivesMergedPayload ==
    RemovedRole =>
        /\ Len(merges) = 1
        /\ merges[1].update = RoleTombstone
        /\ merges[1].base = pre.access_token_payload
        /\ Len(gwCalls) = 1
        /\ gwCalls[1].sent = DictDel(pre.access_token_payload, "role")
        /\ result = "ok" =>
              /\ access_token_payload = gwCalls[1].reply.user_data_in_jwt
              /\ gwCalls[1].reply.user_data_in_jwt = gwCalls[1].sent =>
                    /\ ~DictHas(access_token_payload, "role")
                    /\ \A k \in Keys \ {"role"} :
                          /\ DictHas(access_token_payload, k)
                                <=> DictHas(pre.access_token_payload, k)
                          /\ DictGet(access_token_payload, k)
                                = DictGet(pre.access_token_payload, k)

GatewayReceivesMergedPayloadWitness ==
    /\ RemovedRole
    /\ result = "ok"
    /\ pre.access_token_payload = <<<<"x", "admin">>, <<"role", "user">>>>
    /\ gwCalls[1].sent = <<<<"x", "admin">>>>
    /\ access_token_payload = <<<<"x", "admin">>>>

Ended(name) == pc = "idle" /\ op = name

\* C11: set_claim_value sends the Gateway the current payload changed only in
\* the key the claim owns: every other key of the current payload is sent with
\* its current value, and no key is sent that is neither current nor the claim's.
SetClaimTouchesOwnKeys ==
    Ended("set_claim_value") =>
        /\ Len(merges) = 1
        /\ Len(gwCalls) = 1
        /\ merges[1].base = pre.access_token_payload
        /\ DictKeys(merges[1].update) = {arg.claim.key}
        /\ DictKeys(gwCalls[1].sent) \subseteq
               DictKeys(pre.access_token_payload) \cup {arg.claim.key}
        /\ \A k \in DictKeys(pre.access_token_payload) \ {arg.claim.key} :
               /\ DictHas(gwCalls[1].sent, k)
               /\ DictGet(gwCalls[1].sent, k) = DictGet(pre.access_token_payload, k)

SetClaimTouchesOwnKeysWitness ==
    /\ Ended("set_claim_value")
    /\ arg.claim.key = "x"
    /\ arg.value = "admin"
    /\ pre.access_token_payload = <<<<"role", None>>, <<"x", "user">>>>
    /\ gwCalls[1].sent = <<<<"role", None>>, <<"x", "admin">>>>

\* C12: get_claim_value makes no Gateway call, leaves the access token, its
\* metadata and the payload unchanged, and returns the claim's read of the
\* payload the session holds.
GetClaimValueIsPureRead ==
    Ended("get_claim_value") =>
        /\ gwCalls = <<>>
        /\ merges = <<>>
        /\ Snapshot = pre
        /\ result = "ok"
        /\ ret = IF DictHas(access_token_payload, arg.claim.key)
                 THEN DictGet(access_token_payload, arg.claim.key)
                 ELSE None

GetClaimValueIsPureReadWitness ==
    /\ Ended("get_claim_value")
    /\ arg.claim.key = "role"
    /\ ret = "user"
    /\ access_token_payload = <<<<"x", "admin">>, <<"role", "user">>>>

\* C13: revoke_session calls the Gateway's revoke_session with the session's
\* handle first; the cookie-removal flag keeps its value while that call is
\* pending and when it fails or is cancelled, and is set once it has returned;
\* the access token, its metadata and the payload are never changed.
RevokeThenMark ==
    op = "revoke_session" =>
        /\ Len(storeCalls) = 1
        /\ storeCalls[1].fn = "revoke_session"
        /\ storeCalls[1].handle = session_handle
        /\ gwCalls = <<>>
        /\ Snapshot = pre
        /\ pc = "revoke_session" =>
               /\ storeCalls[1].reply = "pending"
               /\ remove_cookies = storeCalls[1].cookies
        /\ pc = "idle" =>
               /\ storeCalls[1].reply # "pending"
               /\ result = (IF storeCalls[1].reply = "returned" THEN "ok"
                            ELSE storeCalls[1].reply)
               /\ remove_cookies = (IF storeCalls[1].reply = "returned" THEN TRUE
                                    ELSE storeCalls[1].cookies)

RevokeThenMarkWitness ==
    /\ Ended("revoke_session")
    /\ result = "ok"
    /\ storeCalls[1].cookies = FALSE
    /\ remove_cookies

SessionDataOps == {"get_session_data", "update_session_data",
                   "get_time_created", "get_expiry"}

\* C14: get_session_data, update_session_data, get_time_created and get_expiry
\* make one Gateway call with the session's handle, fail with Unauthorised
\* exactly when it reports the session gone (no session information, or
\* update_session_data returning false), and never change the access token,
\* its metadata or the payload.
SessionDataUnauthorisedIffGone ==
    (pc = "idle" /\ op \in SessionDataOps) =>
        /\ Len(storeCalls) = 1
        /\ storeCalls[1].handle = session_handle
        /\ storeCalls[1].fn = (IF op = "update_session_data"
                               THEN "update_session_data"
                               ELSE "get_session_information")
        /\ result = "Unauthorised" <=> storeCalls[1].reply \in {"absent", "False"}
        /\ result = "ok" <=> storeCalls[1].reply \in {"info", "True"}
        /\ gwCalls = <<>>
        /\ merges = <<>>
        /\ Snapshot = pre
        /\ remove_cookies = storeCalls[1].cookies

SessionDataUnauthorisedIffGoneWitness ==
    /\ Ended("update_session_data")
    /\ result = "Unauthorised"
    /\ storeCalls[1].reply = "False"
    /\ access_token_payload = <<<<"role", "user">>>>

\* the working payload right after position n of the trace
WorkingAfter(n) ==
    IF n < Len(trace) THEN trace[n + 1].payload ELSE new_access_token_payload

\* C15: after a refetch that returned a value the working payload is the merge
\* of the previous working payload with the claim's update {key: value}, so
\* every other key is still there with its value; after a refetch that
\* returned nothing it is the previous working payload; either way the
\* validator's validate comes next.
RefetchMergesIntoWorking ==
    op = "assert_claims" =>
        \A n \in 1..Len(trace) :
            (trace[n].ev = "fetch_value" /\ trace[n].value \notin Failures) =>
                /\ IF n < Len(trace)
                   THEN trace[n + 1].ev = "validate" /\ trace[n + 1].i = trace[n].i
                   ELSE pc = "validate" /\ idx = trace[n].i
                /\ IF trace[n].value = None
                   THEN WorkingAfter(n) = trace[n].payload
                   ELSE /\ ReferenceMerge(trace[n].payload,
                                          <<<<KeyOf(n), trace[n].value>>>>,
                                          WorkingAfter(n))
                        /\ \A k \in DictKeys(trace[n].payload) \ {KeyOf(n)} :
                               /\ DictHas(WorkingAfter(n), k)
                               /\ DictGet(WorkingAfter(n), k)
                                     = DictGet(trace[n].payload, k)

RefetchMergesIntoWorkingWitness ==
    /\ AssertEnded("ok")
    /\ \E n \in FetchedAt :
           /\ KeyOf(n) = "x"
           /\ trace[n].payload = <<<<"role", None>>, <<"x", "user">>>>
           /\ trace[n].value = "admin"
           /\ DictGet(WorkingAfter(n), "x") = "admin"
           /\ DictHas(WorkingAfter(n), "role")
    /\ \E m \in 1..Len(trace) :
           /\ trace[m].ev = "fetch_value"
           /\ trace[m].value = None
           /\ m < Len(trace)

Committed == op = "assert_claims" /\ gwCalls # <<>>

\* C16 as stated: the payload assert_claims sends to the Gateway equals the
\* final working payload key for key, null-valued keys included.
CommitsWorkingPayload ==
    Committed =>
        /\ DictKeys(gwCalls[1].sent) = DictKeys(new_access_token_payload)
        /\ \A k \in DictKeys(new_access_token_payload) :
               DictGet(gwCalls[1].sent, k) = DictGet(new_access_token_payload, k)

\* C16: the update assert_claims hands to merge_into_access_token_payload is
\* the final working payload, and the payload sent to the Gateway equals it key
\* for key except that the keys whose value in it is null are not sent.
CommitsWorkingPayloadWithoutNulls ==
    Committed =>
        /\ Len(merges) = 1
        /\ merges[1].update = new_access_token_payload
        /\ DictKeys(gwCalls[1].sent) =
               {k \in DictKeys(new_access_token_payload) :
                    DictGet(new_access_token_payload, k) # None}
        /\ \A k \in DictKeys(gwCalls[1].sent) :
               DictGet(gwCalls[1].sent, k) = DictGet(new_access_token_payload, k)

CommitsWorkingPayloadWithoutNullsWitness ==
    /\ Committed
    /\ new_access_token_payload = <<<<"role", None>>, <<"x", "admin">>>>
    /\ gwCalls[1].sent = <<<<"x", "admin">>>>
    /\ \E n \in 1..Len(trace) :
           /\ trace[n].ev = "validate"
           /\ DictHas(trace[n].payload, "role")

SameContent(a, b) ==
    /\ DictKeys(a) = DictKeys(b)
    /\ \A k \in DictKeys(a) : DictGet(a, k) = DictGet(b, k)

\* assert_claims is past its commit step
CommitDecided ==
    /\ op = "assert_claims"
    /\ \/ pc = "raise"
       \/ pc = "idle" /\ (result \in {"ok", "InvalidClaims"} \/ gwCalls # <<>>)

\* C17: assert_claims commits exactly when the working payload differs from
\* the original in some key or value, whatever the order of the keys.
CommitsIffContentChanged ==
    CommitDecided =>
        (gwCalls # <<>> <=>
            ~SameContent(new_access_token_payload, pre.access_token_payload))

\* C18: a commit that receives a new token stores the token together with the
\* token, expiry and created time of the same response, one that receives none
\* keeps both, so metadata that is set always carries the session's token.
TokenAndInfoTogether ==
    /\ new_access_token_info.set => new_access_token_info.token = access_token
    /\ IF gwCalls # <<>> /\ LastCall.reply.kind = "ok"
          /\ LastCall.reply.access_token.present
       THEN /\ access_token = LastCall.reply.access_token.token
            /\ access_token # pre.access_token
            /\ new_access_token_info =
                   [set |-> TRUE,
                    token |-> LastCall.reply.access_token.token,
                    expiry |-> LastCall.reply.access_token.expiry,
                    createdTime |-> LastCall.reply.access_token.created_time]
       ELSE /\ access_token = pre.access_token
            /\ new_access_token_info = pre.new_access_token_info

TokenAndInfoTogetherWitness ==
    /\ pc = "idle"
    /\ op = "remove_claim"
    /\ result = "ok"
    /\ LastCall.reply.access_token.present
    /\ new_access_token_info.set
    /\ new_access_token_info.token = access_token
    /\ access_token # pre.access_token

\* C19: one operation calls the Gateway's regenerate_access_token at most
\* once and each validator's fetch_value at most once, and a Gateway failure
\* other than a missing session reaches the caller as it is.
NoRetries ==
    /\ Len(gwCalls) <= 1
    /\ Len(merges) <= 1
    /\ Len(storeCalls) <= 1
    /\ \A a, b \in 1..Len(trace) :
           (trace[a].ev = "fetch_value" /\ trace[b].ev = "fetch_value"
            /\ trace[a].i = trace[b].i) => a = b
    /\ (pc = "idle" /\ gwCalls # <<>> /\ LastCall.reply.kind \in Failures) =>
           result = LastCall.reply.kind
    /\ (pc = "idle" /\ storeCalls # <<>> /\ storeCalls[1].reply \in Failures) =>
           result = storeCalls[1].reply

NoRetriesWitness ==
    /\ AssertEnded("error")
    /\ Len(gwCalls) = 1
    /\ LastCall.reply.kind = "error"
    /\ \E n \in FetchedAt : TRUE

\* C20: when the commit step of assert_claims fails, the caller gets that
\* failure also when validators have failed; InvalidClaims is raised only
\* with the commit skipped for an unchanged payload or completed.
CommitFailureWins ==
    op = "assert_claims" =>
        /\ (pc = "idle" /\ gwCalls # <<>> /\ LastCall.reply.kind # "ok") =>
               result = (IF LastCall.reply.kind = "gone" THEN "Unauthorised"
                         ELSE LastCall.reply.kind)
        /\ (pc = "raise" \/ AssertEnded("InvalidClaims")) =>
               \/ gwCalls = <<>> /\ JsonDumps(new_access_token_payload) = original_json
               \/ Len(gwCalls) = 1 /\ LastCall.reply.kind = "ok"

CommitFailureWinsWitness ==
    /\ AssertEnded("Unauthorised")
    /\ validation_errors # <<>>
    /\ LastCall.reply.kind = "gone"

\* ------------------------------------------------ claims on the API functions
VerifyEnded == api_op = "verify_session" /\ api_pc = "idle"
SignoutEnded == api_op = "signout_post" /\ api_pc = "idle"

\* this API function has called a method of the session
CalledSession == opsDone > api_pre.opsDone

OptionsOrTrace == request.method \in {"OPTIONS", "trace"}
RefreshPost ==
    /\ request.method \in {"POST", "post"}
    /\ request.path \in {"/auth/session/refresh", "/auth/session/refresh/"}

\* C21: verify_session calls assert_claims after get_session and exactly when
\* get_session returned a session; OPTIONS and TRACE requests return None with
\* no call at all; a POST to the refresh path returns what refresh_session
\* returned with no other call; a failure of assert_claims is what the caller
\* gets, and the session is returned only when assert_claims succeeded.
VerifyChecksClaimsOfItsSession ==
    api_op = "verify_session" =>
        /\ \A n \in 1..Len(api_calls) :
               api_calls[n].fn = "assert_claims" =>
                   /\ n = 2
                   /\ api_calls[1].fn = "get_session"
                   /\ api_calls[1].reply = "session"
                   /\ api_calls[2].session = "session"
        /\ (api_calls # <<>> /\ api_calls[1].fn = "get_session") =>
               /\ api_calls[1].args = api_args
               /\ api_calls[1].reply = "session" =>
                      Len(api_calls) = 2 /\ api_calls[2].fn = "assert_claims"
               /\ api_calls[1].reply # "session" => Len(api_calls) = 1
               /\ (api_pc = "idle" /\ api_calls[1].reply # "session") =>
                      api_result = api_calls[1].reply
        /\ OptionsOrTrace =>
               api_calls = <<>> /\ api_pc = "idle" /\ api_result = None
        /\ (RefreshPost /\ ~OptionsOrTrace) =>
               /\ Len(api_calls) = 1
               /\ api_calls[1].fn = "refresh_session"
               /\ api_pc = "idle" => api_result = api_calls[1].reply
        /\ (api_pc = "idle" /\ Len(api_calls) = 2) =>
               /\ api_calls[2].reply # "ok" =>
                      api_result = api_calls[2].reply /\ api_result # "session"
               /\ api_calls[2].reply = "ok" => api_result = "session"

VerifyChecksClaimsOfItsSessionWitness ==
    /\ VerifyEnded
    /\ Len(api_calls) = 2
    /\ api_calls[1].reply = "session"
    /\ api_calls[2].fn = "assert_claims"
    /\ api_calls[2].reply = "InvalidClaims"
    /\ api_result = "InvalidClaims"

\* C22: signout_post asks get_session for the session with an empty list of
\* claim validators and revokes exactly when it got one: Unauthorised from
\* get_session gives the OK response with no revoke_session call, and
\* otherwise the OK response comes only after revoke_session has returned.
SignoutRevokesIffSession ==
    api_op = "signout_post" =>
        /\ Len(api_calls) = 1
        /\ api_calls[1].fn = "get_session"
        /\ api_calls[1].args.session_required
        /\ api_calls[1].args.override_global_claim_validators =
               [callable |-> TRUE, returns |-> <<>>]
        /\ CalledSession =>
               /\ api_calls[1].reply = "session"
               /\ opsDone = api_pre.opsDone + 1
               /\ op = "revoke_session"
               /\ Len(storeCalls) = 1
               /\ storeCalls[1].fn = "revoke_session"
        /\ ~CalledSession => remove_cookies = api_pre.remove_cookies
        /\ api_pc = "idle" => (CalledSession <=> api_calls[1].reply = "session")
        /\ (api_pc = "idle" /\ api_calls[1].reply = "Unauthorised") =>
               api_result = "SignOutOkayResponse"
        /\ api_result = "SignOutOkayResponse" =>
               \/ api_calls[1].reply = "Unauthorised"
               \/ /\ CalledSession
                  /\ storeCalls[1].reply = "returned"
                  /\ remove_cookies
        /\ (api_pc = "idle" /\ CalledSession
            /\ storeCalls[1].reply \in Failures) =>
               api_result = storeCalls[1].reply

SignoutRevokesIffSessionWitness ==
    /\ SignoutEnded
    /\ api_calls[1].reply = "Unauthorised"
    /\ api_result = "SignOutOkayResponse"
    /\ ~CalledSession

\* ------------------------------------------- claims on the recipe's singleton
\* C23: get_instance raises exactly while no init function has built the
\* singleton; an init function run while the singleton is set raises and
\* leaves it; reset in a testing environment returns with the singleton
\* cleared, so that init succeeds again; reset outside a testing environment
\* raises and leaves the singleton as it was.
SingletonLifecycle ==
    /\ last_call.fn = "get_instance" =>
           /\ last_call.outcome = "Initialisation not done" <=> last_call.before.is_none
           /\ tpep_instance = last_call.before
    /\ last_call.fn = "func" =>
           IF last_call.before.is_none
           THEN last_call.outcome = "returned" <=> ~tpep_instance.is_none
           ELSE /\ last_call.outcome = "already been initialised"
                /\ tpep_instance = last_call.before
    /\ last_call.fn = "init" => tpep_instance = last_call.before
    /\ last_call.fn = "reset" =>
           IF InTesting
           THEN /\ last_call.outcome = "returned"
                /\ tpep_instance = NoInstance
           ELSE /\ last_call.outcome = "calling testing function in non testing env"
                /\ tpep_instance = last_call.before

====
